---- MODULE Spec2Model ----
(***************************************************************************)
(* A model of mech/vmrun.py: the executable locator (the three             *)
(* get_*_executable functions and the VMrun class body that selects one    *)
(* of them) and the command invoker VMrun.vmrun with the session           *)
(* constructor VMrun.__init__.                                             *)
(*                                                                         *)
(* Python strings are sequences of atoms (an atom is a path separator, a   *)
(* PATH separator or an opaque name), so that str.split, os.path.join and  *)
(* str.join are computed and not assumed.  Python values are records with  *)
(* a type tag, so that None, '', 0 and False are four different values.    *)
(***************************************************************************)
EXTENDS Integers, Sequences, FiniteSets, TLC

\* Bounds of the model.
MaxPathDirs == 2
MaxArgs == 2
MaxProgramArgs == 1

VARIABLES
    platform,            \* sys.platform
    environ,             \* os.environ, a set of <<name, value>> pairs
    files,               \* the paths for which os.path.exists is true
    registry,            \* HKEY_LOCAL_MACHINE: the two VMware Workstation keys
    called,              \* the locator function called last, "none" before
    returned,            \* what that call returned or raised
    classState,          \* "undefined", "defined", or "raised" (the import failed)
    provider,            \* VMrun.provider
    default_executable,  \* VMrun.default_executable
    pc,                  \* where the caller of the session is
    self,                \* the session: vmx_file, user, password, executable
    cmd,                 \* vmrun's cmd parameter
    args,                \* vmrun's *args
    cmds,                \* vmrun's local list, the argument vector
    proc,                \* the child process of the current call
    result,              \* the value vmrun returned
    error,               \* the exception vmrun raised, and the line that raised it
    prev,                \* the vector of the call before, kept when this call repeats it
    facade               \* the public method the caller called, with its parameters

envVars == <<platform, environ, files, registry>>
locVars == <<called, returned>>
classVars == <<classState, provider, default_executable>>
callVars == <<pc, self, cmd, args, cmds, proc, result, error, prev, facade>>
vars == <<envVars, locVars, classVars, callVars>>

----------------------------------------------------------------------------
\* Python values.

PyNone == [tag |-> "None", s |-> <<>>, n |-> 0]
PyStr(s) == [tag |-> "str", s |-> s, n |-> 0]
PyInt(n) == [tag |-> "int", s |-> <<>>, n |-> n]
PyBool(b) == [tag |-> "bool", s |-> <<>>, n |-> IF b THEN 1 ELSE 0]

\* bool(v): None, '', 0 and False are false, everything else is true.
Truthy(v) ==
    CASE v.tag = "None" -> FALSE
      [] v.tag = "str" -> v.s # <<>>
      [] v.tag = "int" -> v.n # 0
      [] v.tag = "bool" -> v.n # 0

\* a or b
PyOr(a, b) == IF Truthy(a) THEN a ELSE b

IsStr(v) == v.tag = "str"

----------------------------------------------------------------------------
\* Strings and paths.

\* os.pathsep and os.sep of the platform.
pathsep(plat) == IF plat = "win32" THEN ";" ELSE ":"
sep(plat) == IF plat = "win32" THEN "\\" ELSE "/"

RECURSIVE Split(_, _)
\* s.split(d): the pieces of s between the occurrences of d; ''.split(d) is [''].
Split(s, d) ==
    IF \A i \in 1..Len(s) : s[i] # d
    THEN <<s>>
    ELSE LET i == CHOOSE k \in 1..Len(s) :
                      s[k] = d /\ \A j \in 1..(k - 1) : s[j] # d
         IN <<SubSeq(s, 1, i - 1)>> \o Split(SubSeq(s, i + 1, Len(s)), d)

RECURSIVE StrJoin(_, _)
\* d.join(parts) for a list of strings.
StrJoin(parts, d) ==
    IF parts = <<>> THEN <<>>
    ELSE IF Len(parts) = 1 THEN parts[1]
    ELSE parts[1] \o <<d>> \o StrJoin(Tail(parts), d)

\* os.path.join(a, b) for a relative b: b alone when a is empty, no second
\* separator when a ends with one.
path_join(plat, a, b) ==
    IF a = <<>> THEN b
    ELSE IF a[Len(a)] = sep(plat) THEN a \o b
    ELSE a \o <<sep(plat)>> \o b

exists(fs, p) == p \in fs

----------------------------------------------------------------------------
\* The executable locator.

Returns(v) == [ret |-> v, exc |-> "none"]
Raises(e) == [ret |-> PyNone, exc |-> e]

NAME_vmrun == <<"vmrun">>
NAME_vmrun_exe == <<"vmrun.exe">>

HasPATH(env) == \E e \in env : e[1] = "PATH"
GetPATH(env) == (CHOOSE e \in env : e[1] = "PATH")[2]

RECURSIVE ScanFromExeFirst(_, _, _, _)
ScanFromExeFirst(plat, fs, dirs, i) ==
    IF i > Len(dirs) THEN PyNone
    ELSE IF exists(fs, path_join(plat, dirs[i], NAME_vmrun_exe))
         THEN PyStr(path_join(plat, dirs[i], NAME_vmrun_exe))
    ELSE IF exists(fs, path_join(plat, dirs[i], NAME_vmrun))
         THEN PyStr(path_join(plat, dirs[i], NAME_vmrun))
    ELSE ScanFromExeFirst(plat, fs, dirs, i + 1)

RECURSIVE ScanFrom(_, _, _, _)
\* The for loop of get_fallback_executable from its i-th iteration on; falling
\* off the end of the function returns None.
ScanFrom(plat, fs, dirs, i) ==
    IF i > Len(dirs) THEN PyNone
    ELSE IF exists(fs, path_join(plat, dirs[i], NAME_vmrun))
         THEN PyStr(path_join(plat, dirs[i], NAME_vmrun))
    ELSE IF exists(fs, path_join(plat, dirs[i], NAME_vmrun_exe))
         THEN PyStr(path_join(plat, dirs[i], NAME_vmrun_exe))
    ELSE ScanFrom(plat, fs, dirs, i + 1)

get_fallback_executable(plat, env, fs) ==
    IF HasPATH(env)
    THEN ScanFrom(plat, fs, Split(GetPATH(env), pathsep(plat)), 1)
    ELSE PyNone

FUSION_VMRUN == <<"/Applications/VMware Fusion.app/Contents/Library/vmrun">>

get_darwin_executable(plat, env, fs) ==
    IF exists(fs, FUSION_VMRUN)
    THEN PyStr(FUSION_VMRUN)
    ELSE get_fallback_executable(plat, env, fs)

\* One registry lookup: OpenKey, then QueryValueEx(key, 'InstallPath') joined
\* with 'vmrun.exe'; either call raises WindowsError.
QueryInstallPath(plat, key) ==
    IF ~key.open THEN Raises("WindowsError")
    ELSE IF ~key.hasValue THEN Raises("WindowsError")
    ELSE Returns(PyStr(path_join(plat, key.InstallPath, NAME_vmrun_exe)))

\* The try block returns or raises WindowsError; the except block returns or
\* raises out of the function.  No path leaves the try statement normally,
\* so the final "return get_fallback_executable()" is not executed.
get_win32_executable(plat, env, fs, reg) ==
    LET first == QueryInstallPath(plat, reg.primary)
    IN IF first.exc = "WindowsError"
       THEN QueryInstallPath(plat, reg.wow)
       ELSE first

ProviderOf(plat) == IF plat = "darwin" THEN <<"fusion">> ELSE <<"ws">>

\* The body of class VMrun, run when the module is imported.
ClassBody(plat, env, fs, reg) ==
    IF plat = "darwin"
    THEN Returns(get_darwin_executable(plat, env, fs))
    ELSE IF plat = "win32"
    THEN get_win32_executable(plat, env, fs, reg)
    ELSE Returns(get_fallback_executable(plat, env, fs))

----------------------------------------------------------------------------
\* The environments of the model.

Platforms == {"darwin", "win32", "linux"}

\* PATH entries: the empty entry, two directories, one of them also written
\* with a trailing separator.
Dirs(plat) ==
    { <<>>, <<sep(plat), "opt">>, <<sep(plat), "opt", sep(plat)>>, <<sep(plat), "bin">> }

DirLists(plat) == UNION { [1..n -> Dirs(plat)] : n \in 0..MaxPathDirs }

Environs(plat) ==
    { {} } \cup { { <<"PATH", StrJoin(ds, pathsep(plat))>> } : ds \in DirLists(plat) }

\* Every path the locator can ask for.
Candidates(plat) ==
    { path_join(plat, d, nm) : d \in Dirs(plat), nm \in {NAME_vmrun, NAME_vmrun_exe} }
        \cup {FUSION_VMRUN}

INSTALL_DIR == <<"C:", "\\", "VMware Workstation", "\\">>

NoKey == [open |-> FALSE, hasValue |-> FALSE, InstallPath |-> <<>>]
KeyStates == { NoKey,
               [open |-> TRUE, hasValue |-> FALSE, InstallPath |-> <<>>],
               [open |-> TRUE, hasValue |-> TRUE, InstallPath |-> INSTALL_DIR] }

\* There is a registry on win32 only.
Registries(plat) ==
    IF plat = "win32"
    THEN [primary : KeyStates, wow : KeyStates]
    ELSE { [primary |-> NoKey, wow |-> NoKey] }

NoSelf == [vmx_file |-> PyNone, user |-> PyNone, password |-> PyNone, executable |-> PyNone]
NoProc == [spawned |-> 0, exited |-> FALSE, returncode |-> 0, stdout |-> PyNone]
NoError == [exc |-> "none", at |-> "none"]
NoPrev == [set |-> FALSE, cmds |-> <<>>]
NoFacade == [name |-> "none", params |-> <<>>, rest |-> <<>>]

CallIdle ==
    /\ self = NoSelf
    /\ cmd = PyNone
    /\ args = <<>>
    /\ cmds = <<>>
    /\ proc = NoProc
    /\ result = PyNone
    /\ error = NoError
    /\ prev = NoPrev
    /\ facade = NoFacade

----------------------------------------------------------------------------
\* The locator's specification: any environment, then one call of a locator
\* function or the import of the module.

InitLocator ==
    /\ platform \in Platforms
    /\ environ \in Environs(platform)
    /\ files \in SUBSET Candidates(platform)
    /\ registry \in Registries(platform)
    /\ called = "none"
    /\ returned = Returns(PyNone)
    /\ classState = "undefined"
    /\ provider = PyNone
    /\ default_executable = PyNone
    /\ pc = "import"
    /\ CallIdle

call_get_fallback_executable ==
    /\ called = "none" /\ classState = "undefined"
    /\ called' = "get_fallback_executable"
    /\ returned' = Returns(get_fallback_executable(platform, environ, files))
    /\ UNCHANGED <<envVars, classVars, callVars>>

call_get_darwin_executable ==
    /\ called = "none" /\ classState = "undefined"
    /\ called' = "get_darwin_executable"
    /\ returned' = Returns(get_darwin_executable(platform, environ, files))
    /\ UNCHANGED <<envVars, classVars, callVars>>

\* _winreg can be imported on win32 only.
call_get_win32_executable ==
    /\ called = "none" /\ classState = "undefined"
    /\ platform = "win32"
    /\ called' = "get_win32_executable"
    /\ returned' = get_win32_executable(platform, environ, files, registry)
    /\ UNCHANGED <<envVars, classVars, callVars>>

\* import mech.vmrun: the class body runs once.
class_VMrun ==
    /\ called = "none" /\ classState = "undefined"
    /\ LET r == ClassBody(platform, environ, files, registry)
       IN IF r.exc = "none"
          THEN /\ classState' = "defined"
               /\ provider' = PyStr(ProviderOf(platform))
               /\ default_executable' = r.ret
               /\ returned' = r
          ELSE /\ classState' = "raised"
               /\ provider' = PyStr(ProviderOf(platform))
               /\ default_executable' = PyNone
               /\ returned' = r
    /\ called' = "class VMrun"
    /\ UNCHANGED <<envVars, callVars>>

NextLocator ==
    \/ call_get_fallback_executable
    \/ call_get_darwin_executable
    \/ call_get_win32_executable
    \/ class_VMrun

SpecLocator == InitLocator /\ [][NextLocator]_vars

----------------------------------------------------------------------------
\* The session and the command invoker.

TOK_T == PyStr(<<"-T">>)
TOK_gu == PyStr(<<"-gu">>)
TOK_gp == PyStr(<<"-gp">>)

\* filter(None, args): the entries that are true, in their order.
FilterNone(a) == SelectSeq(a, Truthy)

BuildCmds_CmdBeforeCredentials(s, prov, c, a) ==
    <<s.executable, TOK_T, prov, c>>
        \o (IF Truthy(s.user) THEN <<TOK_gu, s.user>> ELSE <<>>)
        \o (IF Truthy(s.password) THEN <<TOK_gp, s.password>> ELSE <<>>)
        \o FilterNone(a)

BuildCmds_CredentialsOnlyWhenBoth(s, prov, c, a) ==
    <<s.executable, TOK_T, prov>>
        \o (IF Truthy(s.user) /\ Truthy(s.password)
            THEN <<TOK_gu, s.user, TOK_gp, s.password>> ELSE <<>>)
        \o <<c>>
        \o FilterNone(a)

\* The list cmds as vmrun builds it, append by append.
BuildCmds(s, prov, c, a) ==
    <<s.executable, TOK_T, prov>>
        \o (IF Truthy(s.user) THEN <<TOK_gu, s.user>> ELSE <<>>)
        \o (IF Truthy(s.password) THEN <<TOK_gp, s.password>> ELSE <<>>)
        \o <<c>>
        \o FilterNone(a)

\* The environments a session is created in: nothing installed; vmrun found
\* on PATH; the Fusion bundle; the primary registry key.
SessionEnvs ==
    { [platform |-> "linux", environ |-> {}, files |-> {},
       registry |-> [primary |-> NoKey, wow |-> NoKey]],
      [platform |-> "linux", environ |-> { <<"PATH", <<"/", "opt">> >> },
       files |-> { <<"/", "opt", "/", "vmrun">> },
       registry |-> [primary |-> NoKey, wow |-> NoKey]],
      [platform |-> "darwin", environ |-> {}, files |-> {FUSION_VMRUN},
       registry |-> [primary |-> NoKey, wow |-> NoKey]],
      [platform |-> "win32", environ |-> {}, files |-> {},
       registry |-> [primary |-> [open |-> TRUE, hasValue |-> TRUE, InstallPath |-> INSTALL_DIR],
                     wow |-> NoKey]] }

VMX == PyStr(<<"/vm/test.vmx">>)
VmxFiles == {VMX}
Users == {PyNone, PyStr(<<>>), PyStr(<<"u">>)}
Passwords == {PyNone, PyStr(<<>>), PyStr(<<"p">>)}
Executables == {PyNone, PyStr(<<>>), PyStr(<<"/x/vmrun">>)}

\* Command keywords (non-empty) and positional argument values.
Keywords == {PyStr(<<"list">>), PyStr(<<"start">>)}
ArgValues ==
    { PyNone, PyStr(<<>>), PyStr(<<"a">>), PyStr(<<"b">>),
      PyInt(0), PyInt(8080), PyBool(FALSE) }
ArgLists == UNION { [1..n -> ArgValues] : n \in 0..MaxArgs }

\* What the child process can write to its standard output, and its exit codes.
Outputs == {PyStr(<<>>), PyStr(<<"ok">>)}
ExitCodes == {0, 1}

\* The module has been imported: the class exists, no session yet.
Init ==
    /\ \E e \in SessionEnvs :
          /\ platform = e.platform
          /\ environ = e.environ
          /\ files = e.files
          /\ registry = e.registry
    /\ called = "class VMrun"
    /\ returned = ClassBody(platform, environ, files, registry)
    /\ returned.exc = "none"
    /\ classState = "defined"
    /\ provider = PyStr(ProviderOf(platform))
    /\ default_executable = returned.ret
    /\ pc = "class"
    /\ CallIdle

\* VMrun.__init__
init(vmx, u, pw, exe) ==
    /\ pc = "class"
    /\ self' = [vmx_file |-> vmx, user |-> u, password |-> pw,
                executable |-> PyOr(exe, default_executable)]
    /\ pc' = "idle"
    /\ UNCHANGED <<envVars, locVars, classVars, cmd, args, cmds, proc, result, error, prev, facade>>

vmrun_assemble_ForgetsPassword(c, a) ==
    /\ \/ pc = "idle"
       \/ pc \in {"returned", "raised"} /\ c = cmd /\ a = args
    /\ cmd' = c
    /\ args' = a
    /\ cmds' = BuildCmds(self, provider, c, a)
    /\ prev' = IF pc = "idle" THEN NoPrev ELSE [set |-> TRUE, cmds |-> cmds]
    /\ proc' = NoProc
    /\ result' = PyNone
    /\ error' = NoError
    /\ self' = [self EXCEPT !.password = PyNone]
    /\ pc' = "log"
    /\ UNCHANGED <<envVars, locVars, classVars>>

\* vmrun(cmd, *args), up to the list being complete.  A call starts when the
\* session is idle, or repeats the call that has just returned or raised; in
\* the second case prev keeps the vector of that call.
vmrun_assemble(c, a) ==
    /\ \/ pc = "idle"
       \/ pc \in {"returned", "raised"} /\ c = cmd /\ a = args
    /\ cmd' = c
    /\ args' = a
    /\ cmds' = BuildCmds(self, provider, c, a)
    /\ prev' = IF pc = "idle" THEN NoPrev ELSE [set |-> TRUE, cmds |-> cmds]
    /\ proc' = NoProc
    /\ result' = PyNone
    /\ error' = NoError
    /\ pc' = "log"
    /\ UNCHANGED <<envVars, locVars, classVars, self>>

\* logger.debug(" ".join(cmds)): str.join raises TypeError on an item that is
\* not a string; the argument is evaluated whatever the log level.
vmrun_log ==
    /\ pc = "log"
    /\ IF \A i \in 1..Len(cmds) : IsStr(cmds[i])
       THEN /\ pc' = "spawn"
            /\ error' = error
       ELSE /\ pc' = "raised"
            /\ error' = [exc |-> "TypeError", at |-> "log"]
    /\ UNCHANGED <<envVars, locVars, classVars, self, cmd, args, cmds, proc, result, prev, facade>>

\* subprocess.Popen(cmds, stdout=PIPE): the child is created, or the
\* operating system refuses (no such file, permission denied) and OSError is
\* raised.  Every item is a string here, the log line having passed.
vmrun_Popen ==
    /\ pc = "spawn"
    /\ \/ /\ proc' = [proc EXCEPT !.spawned = proc.spawned + 1]
          /\ pc' = "communicate"
          /\ error' = error
       \/ /\ proc' = proc
          /\ pc' = "raised"
          /\ error' = [exc |-> "OSError", at |-> "spawn"]
    /\ UNCHANGED <<envVars, locVars, classVars, self, cmd, args, cmds, result, prev, facade>>

\* The child writes its output and exits.
child_exit(code, out) ==
    /\ pc = "communicate"
    /\ ~proc.exited
    /\ proc' = [proc EXCEPT !.exited = TRUE, !.returncode = code, !.stdout = out]
    /\ UNCHANGED <<envVars, locVars, classVars, pc, self, cmd, args, cmds, result, error, prev, facade>>

vmrun_return_RaisesOnFailure ==
    /\ pc = "communicate"
    /\ proc.exited
    /\ IF proc.returncode = 0
       THEN /\ result' = proc.stdout
            /\ pc' = "returned"
            /\ error' = error
       ELSE /\ result' = result
            /\ pc' = "raised"
            /\ error' = [exc |-> "CalledProcessError", at |-> "communicate"]
    /\ UNCHANGED <<envVars, locVars, classVars, self, cmd, args, cmds, proc, prev, facade>>

\* proc.communicate() returns once the child has exited, with its whole
\* standard output; stderr is not piped, so stderrdata is None and nothing
\* is printed.  vmrun returns stdoutdata.
vmrun_return ==
    /\ pc = "communicate"
    /\ proc.exited
    /\ LET stdoutdata == proc.stdout
       IN result' = stdoutdata
    /\ pc' = "returned"
    /\ UNCHANGED <<envVars, locVars, classVars, self, cmd, args, cmds, proc, error, prev, facade>>

\* The caller is done with the outcome of the call; the frame is gone.
caller_continues ==
    /\ pc \in {"returned", "raised"}
    /\ pc' = "idle"
    /\ cmd' = PyNone
    /\ args' = <<>>
    /\ cmds' = <<>>
    /\ proc' = NoProc
    /\ result' = PyNone
    /\ error' = NoError
    /\ prev' = NoPrev
    /\ facade' = NoFacade
    /\ UNCHANGED <<envVars, locVars, classVars, self>>

Next ==
    \/ \E vmx \in VmxFiles, u \in Users, pw \in Passwords, exe \in Executables :
          init(vmx, u, pw, exe)
    \/ /\ pc = "idle"
       /\ \E c \in Keywords, a \in ArgLists : vmrun_assemble(c, a)
       /\ UNCHANGED facade
    \/ /\ pc \in {"returned", "raised"}
       /\ vmrun_assemble(cmd, args)
       /\ UNCHANGED facade
    \/ vmrun_log
    \/ vmrun_Popen
    \/ \E code \in ExitCodes, out \in Outputs : child_exit(code, out)
    \/ vmrun_return
    \/ caller_continues

Spec == Init /\ [][Next]_vars

----------------------------------------------------------------------------
\* The public methods: each passes a keyword and its arguments to vmrun.

TRUE_ == PyBool(TRUE)
FALSE_ == PyBool(FALSE)
Bools == {TRUE_, FALSE_}

\* start: self.vmx_file, 'gui' if gui else 'nogui'
start_args(s, gui) ==
    <<s.vmx_file, IF Truthy(gui) THEN PyStr(<<"gui">>) ELSE PyStr(<<"nogui">>)>>

deleteSnapshot_args_AlwaysChildren(s, snap_name, and_delete_children) ==
    <<s.vmx_file, snap_name, PyStr(<<"andDeleteChildren">>)>>

\* deleteSnapshot: self.vmx_file, snap_name,
\* 'andDeleteChildren' if and_delete_children else None
deleteSnapshot_args(s, snap_name, and_delete_children) ==
    <<s.vmx_file, snap_name,
      IF Truthy(and_delete_children) THEN PyStr(<<"andDeleteChildren">>) ELSE PyNone>>

\* setPortForwarding: the six parameters as they are, description None by default.
setPortForwarding_args(host_network, protocol, host_port, guest_ip, guest_port, description) ==
    <<host_network, protocol, host_port, guest_ip, guest_port, description>>

\* The three optional flags as both methods spell them.
FlagNoWait(wait) == IF Truthy(wait) THEN PyNone ELSE PyStr(<<"-noWait">>)
FlagActivateWindow(activate_window) ==
    IF Truthy(activate_window) THEN PyStr(<<"-activateWindow">>) ELSE PyNone
FlagInteractive(interactive) ==
    IF Truthy(interactive) THEN PyStr(<<"-interactive">>) ELSE PyNone

\* runProgramInGuest: vmx_file, the flags, program_path, *args
runProgramInGuest_args(s, program_path, pargs, wait, activate_window, interactive) ==
    <<s.vmx_file, FlagNoWait(wait), FlagActivateWindow(activate_window),
      FlagInteractive(interactive), program_path>> \o pargs

\* runScriptInGuest: vmx_file, interpreter_path, script, the flags
runScriptInGuest_args(s, interpreter_path, script, wait, activate_window, interactive) ==
    <<s.vmx_file, interpreter_path, script, FlagNoWait(wait),
      FlagActivateWindow(activate_window), FlagInteractive(interactive)>>

\* The parameters the methods are called with.
SnapNames == {PyStr(<<"snap1">>), PyStr(<<"snap2">>)}
HostPorts == {PyInt(8080), PyStr(<<"8080">>)}
GuestPorts == {PyInt(80), PyStr(<<"80">>)}
Descriptions == {PyNone, PyStr(<<"web">>)}
NET1 == PyStr(<<"net1">>)
TCP == PyStr(<<"tcp">>)
GUEST_IP == PyStr(<<"10.0.0.5">>)
GuestPaths == {PyStr(<<"/tmp/f">>)}
ProgramPaths == {PyStr(<<"/bin/ls">>)}
ProgramArgValues == {PyStr(<<"-l">>), PyStr(<<"/tmp">>)}
ProgramArgLists == UNION { [1..n -> ProgramArgValues] : n \in 0..MaxProgramArgs }
Interpreters == {PyStr(<<"/bin/sh">>)}
Scripts == {PyStr(<<"ls">>)}

\* What a guest command can write: also a message with the word 'not'.
GuestOutputs == Outputs \cup {PyStr(<<"The file does ", "not", " exist">>)}

start(gui) ==
    /\ pc = "idle"
    /\ facade' = [name |-> "start", params |-> <<gui>>, rest |-> <<>>]
    /\ vmrun_assemble(PyStr(<<"start">>), start_args(self, gui))

deleteSnapshot(snap_name, and_delete_children) ==
    /\ pc = "idle"
    /\ facade' = [name |-> "deleteSnapshot",
                  params |-> <<snap_name, and_delete_children>>, rest |-> <<>>]
    /\ vmrun_assemble(PyStr(<<"deleteSnapshot">>),
                      deleteSnapshot_args(self, snap_name, and_delete_children))

setPortForwarding(host_network, protocol, host_port, guest_ip, guest_port, description) ==
    /\ pc = "idle"
    /\ facade' = [name |-> "setPortForwarding",
                  params |-> <<host_network, protocol, host_port, guest_ip,
                               guest_port, description>>,
                  rest |-> <<>>]
    /\ vmrun_assemble(PyStr(<<"setPortForwarding">>),
                      setPortForwarding_args(host_network, protocol, host_port,
                                             guest_ip, guest_port, description))

runProgramInGuest(program_path, pargs, wait, activate_window, interactive) ==
    /\ pc = "idle"
    /\ facade' = [name |-> "runProgramInGuest",
                  params |-> <<program_path, wait, activate_window, interactive>>,
                  rest |-> pargs]
    /\ vmrun_assemble(PyStr(<<"runProgramInGuest">>),
                      runProgramInGuest_args(self, program_path, pargs, wait,
                                             activate_window, interactive))

runScriptInGuest(interpreter_path, script, wait, activate_window, interactive) ==
    /\ pc = "idle"
    /\ facade' = [name |-> "runScriptInGuest",
                  params |-> <<interpreter_path, wait, activate_window, interactive>>,
                  rest |-> <<script>>]
    /\ vmrun_assemble(PyStr(<<"runScriptInGuest">>),
                      runScriptInGuest_args(self, interpreter_path, script, wait,
                                            activate_window, interactive))

\* self.execute(...): class VMrun (a subclass of object, with no __getattr__)
\* defines no attribute 'execute', so the attribute lookup raises
\* AttributeError before anything is assembled.
fileExistsInGuest(file) ==
    /\ pc = "idle"
    /\ facade' = [name |-> "fileExistsInGuest", params |-> <<file>>, rest |-> <<>>]
    /\ pc' = "raised"
    /\ error' = [exc |-> "AttributeError", at |-> "self.execute"]
    /\ UNCHANGED <<envVars, locVars, classVars, self, cmd, args, cmds, proc, result, prev>>

directoryExistsInGuest(path) ==
    /\ pc = "idle"
    /\ facade' = [name |-> "directoryExistsInGuest", params |-> <<path>>, rest |-> <<>>]
    /\ pc' = "raised"
    /\ error' = [exc |-> "AttributeError", at |-> "self.execute"]
    /\ UNCHANGED <<envVars, locVars, classVars, self, cmd, args, cmds, proc, result, prev>>

NextFacade ==
    \/ \E vmx \in VmxFiles, u \in Users, pw \in Passwords, exe \in Executables :
          init(vmx, u, pw, exe)
    \/ \E gui \in Bools : start(gui)
    \/ \E sn \in SnapNames, adc \in Bools : deleteSnapshot(sn, adc)
    \/ \E hp \in HostPorts, gp \in GuestPorts, d \in Descriptions :
          setPortForwarding(NET1, TCP, hp, GUEST_IP, gp, d)
    \/ \E pp \in ProgramPaths, pa \in ProgramArgLists, w \in Bools, aw \in Bools, ia \in Bools :
          runProgramInGuest(pp, pa, w, aw, ia)
    \/ \E ip \in Interpreters, sc \in Scripts, w \in Bools, aw \in Bools, ia \in Bools :
          runScriptInGuest(ip, sc, w, aw, ia)
    \/ \E f \in GuestPaths : fileExistsInGuest(f)
    \/ \E f \in GuestPaths : directoryExistsInGuest(f)
    \/ vmrun_log
    \/ vmrun_Popen
    \/ \E code \in ExitCodes, out \in GuestOutputs : child_exit(code, out)
    \/ vmrun_return
    \/ caller_continues

SpecFacade == Init /\ [][NextFacade]_vars

----------------------------------------------------------------------------
\* Properties of the command invoker (checked under Spec).

\* The argument vector of the current call is complete.
Built == pc \in {"log", "spawn", "communicate", "returned", "raised"}

\* t is a with some entries removed, the others in their order.
IsSubsequence(t, a) ==
    \E f \in [1..Len(t) -> 1..Len(a)] :
        /\ \A i \in 1..Len(t) : t[i] = a[f[i]]
        /\ \A i, j \in 1..Len(t) : i < j => f[i] < f[j]

HasToken(tok) == \E i \in 1..Len(cmds) : cmds[i] = tok
HasPair(flag, v) == \E i \in 1..(Len(cmds) - 1) : cmds[i] = flag /\ cmds[i + 1] = v

\* The tokens after the command keyword (no credential or argument value of
\* the model equals a keyword).
KeywordAt == CHOOSE i \in 4..Len(cmds) : cmds[i] = cmd
Positional == SubSeq(cmds, KeywordAt + 1, Len(cmds))

NotNone(v) == v # PyNone

\* C1: the vector is the executable, '-T', the provider tag ('fusion' or 'ws'),
\* then zero, one or two credential flag pairs, then the command keyword, then
\* kept positional arguments in their order, and nothing else.
C1_VectorShape ==
    Built =>
        \E k \in {0, 2, 4} :
            /\ Len(cmds) >= 4 + k
            /\ cmds[1] = self.executable
            /\ cmds[2] = TOK_T
            /\ cmds[3] = provider
            /\ cmds[3] \in {PyStr(<<"fusion">>), PyStr(<<"ws">>)}
            /\ SubSeq(cmds, 4, 3 + k) \in
                  { <<>>, <<TOK_gu, self.user>>, <<TOK_gp, self.password>>,
                    <<TOK_gu, self.user, TOK_gp, self.password>> }
            /\ cmds[4 + k] = cmd
            /\ IsSubsequence(SubSeq(cmds, 5 + k, Len(cmds)), args)

\* C1 witness: a session with both credentials, a call whose arguments hold a
\* None and a kept string: nine tokens.
C1_Witness ==
    /\ Built
    /\ Truthy(self.user) /\ Truthy(self.password)
    /\ args = <<PyNone, PyStr(<<"a">>)>>
    /\ cmds = <<self.executable, TOK_T, provider, TOK_gu, self.user,
                TOK_gp, self.password, cmd, PyStr(<<"a">>)>>

\* C2 as claimed: a credential flag appears if and only if both a user and a
\* password are configured.
C2_CredentialsIffBoth ==
    Built =>
        /\ (HasToken(TOK_gu) \/ HasToken(TOK_gp))
              <=> (Truthy(self.user) /\ Truthy(self.password))
        /\ (Truthy(self.user) /\ Truthy(self.password))
              => (HasPair(TOK_gu, self.user) /\ HasPair(TOK_gp, self.password))

\* C2 as amended: '-gu <user>' appears exactly when a non-empty user is
\* configured and '-gp <password>' exactly when a non-empty password is
\* configured, each whatever the other is.
C2_EachCredentialOnItsOwn ==
    Built =>
        /\ HasToken(TOK_gu) <=> Truthy(self.user)
        /\ HasToken(TOK_gu) => HasPair(TOK_gu, self.user)
        /\ HasToken(TOK_gp) <=> Truthy(self.password)
        /\ HasToken(TOK_gp) => HasPair(TOK_gp, self.password)

\* C2 witness: a user without a password; '-gu' is there and '-gp' is not.
C2_Witness ==
    /\ Built
    /\ Truthy(self.user) /\ ~Truthy(self.password)
    /\ HasPair(TOK_gu, self.user)
    /\ ~HasToken(TOK_gp)

\* C3: the tokens after the keyword are the arguments with the None entries
\* removed, in the order given.
C3_NoneOmittedOrderKept ==
    Built => Positional = SelectSeq(args, NotNone)

\* C4: every argument that is not None is in the vector, and as many
\* positional tokens are emitted as there are arguments that are not None.
C4_OnlyNoneDropped ==
    Built =>
        /\ \A i \in 1..Len(args) :
              args[i] # PyNone => \E j \in 1..Len(Positional) : Positional[j] = args[i]
        /\ Len(Positional) = Cardinality({ i \in 1..Len(args) : args[i] # PyNone })

\* C5: a call that repeats the call before builds the vector that call built,
\* and no step of any call changes the session or the class attributes.
C5_Deterministic ==
    /\ [](prev.set => cmds = prev.cmds)
    /\ [][pc # "class" =>
             /\ self' = self
             /\ provider' = provider
             /\ default_executable' = default_executable]_vars

\* C5 witness: a session with credentials made a call with two arguments and
\* repeated it; the repeated call built the same vector and has returned.
C5_Witness ==
    /\ prev.set
    /\ pc = "returned"
    /\ Truthy(self.user) /\ Truthy(self.password)
    /\ Len(args) = 2
    /\ cmds = prev.cmds

\* C9: with no executable, a call does not return, and when it fails it fails
\* at the spawn.
C9_AbsentExecutableFailsAtSpawn ==
    (Built /\ self.executable = PyNone) =>
        /\ pc # "returned"
        /\ pc = "raised" => error.at = "spawn"

\* C10: a call spawns at most one child; once the child is spawned the call
\* raises nothing; and it returns after the child has exited, the child's
\* standard output, whatever the exit code.
C10_ReturnsChildStdout ==
    /\ proc.spawned <= 1
    /\ proc.spawned = 1 => (pc \in {"communicate", "returned"} /\ error = NoError)
    /\ pc = "returned" => (proc.spawned = 1 /\ proc.exited /\ result = proc.stdout)

\* C10 witness: the child exited with code 1 having written "ok", and the call
\* returned "ok".
C10_Witness ==
    /\ pc = "returned"
    /\ proc.returncode = 1
    /\ proc.stdout = PyStr(<<"ok">>)
    /\ result = PyStr(<<"ok">>)

----------------------------------------------------------------------------
\* Properties of the locator (checked under SpecLocator).

\* The PATH entries as the scan sees them, and whether the i-th holds a candidate.
PathDirs == Split(GetPATH(environ), pathsep(platform))
DirHas(d, nm) == exists(files, path_join(platform, d, nm))
DirHit(d) == DirHas(d, NAME_vmrun) \/ DirHas(d, NAME_vmrun_exe)

\* C6: the PATH scan returns a candidate of the earliest PATH entry that holds
\* one (no earlier entry holds either file), that candidate exists and is the
\* join of the entry and the file name, 'vmrun' being preferred to 'vmrun.exe'
\* inside one entry; it returns None when no entry holds a candidate.
C6_FirstMatchInPathOrder ==
    (called = "get_fallback_executable" /\ HasPATH(environ)) =>
        IF \E i \in 1..Len(PathDirs) : DirHit(PathDirs[i])
        THEN \E i \in 1..Len(PathDirs) :
                /\ DirHit(PathDirs[i])
                /\ \A j \in 1..(i - 1) : ~DirHit(PathDirs[j])
                /\ \E nm \in {NAME_vmrun, NAME_vmrun_exe} :
                      /\ returned = Returns(PyStr(path_join(platform, PathDirs[i], nm)))
                      /\ DirHas(PathDirs[i], nm)
                      /\ (nm = NAME_vmrun_exe => ~DirHas(PathDirs[i], NAME_vmrun))
        ELSE returned = Returns(PyNone)

\* C6 witness: two different PATH entries, the first holding only 'vmrun.exe'
\* and the second holding 'vmrun'; the scan returned the first entry's file.
C6_Witness ==
    /\ called = "get_fallback_executable"
    /\ HasPATH(environ)
    /\ Len(PathDirs) = 2
    /\ DirHas(PathDirs[1], NAME_vmrun_exe) /\ ~DirHas(PathDirs[1], NAME_vmrun)
    /\ DirHas(PathDirs[2], NAME_vmrun)
    /\ path_join(platform, PathDirs[1], NAME_vmrun) # path_join(platform, PathDirs[2], NAME_vmrun)
    /\ returned = Returns(PyStr(path_join(platform, PathDirs[1], NAME_vmrun_exe)))

\* C7: with PATH missing or empty and the well-known install path absent, the
\* locator returns None whatever files exist.
C7_AbsentWhenPathEmptyOrMissing ==
    ( /\ \/ called \in {"get_fallback_executable", "get_darwin_executable"}
         \/ (called = "class VMrun" /\ platform # "win32")
      /\ (~HasPATH(environ) \/ GetPATH(environ) = <<>>)
      /\ ~exists(files, FUSION_VMRUN) )
    => returned = Returns(PyNone)

\* C8: on win32, when neither registry key can be opened, discovery returns
\* the result of the PATH scan and raises nothing.
C8_Win32FallsBackToPathScan ==
    ( /\ called \in {"get_win32_executable", "class VMrun"}
      /\ platform = "win32"
      /\ ~registry.primary.open /\ ~registry.wow.open )
    => returned = Returns(get_fallback_executable(platform, environ, files))

----------------------------------------------------------------------------
\* Properties of the public methods (checked under SpecFacade).

\* C11: start on a session with vmx_file V issues keyword 'start' with
\* arguments [V, 'nogui'] for gui=False and [V, 'gui'] for gui=True;
\* deleteSnapshot(S, True) issues [V, S, 'andDeleteChildren'] and
\* deleteSnapshot(S, False) issues exactly [V, S].
C11_BooleanOptionToken ==
    /\ (Built /\ facade.name = "start") =>
          /\ cmd = PyStr(<<"start">>)
          /\ facade.params[1] = FALSE_ =>
                Positional = <<self.vmx_file, PyStr(<<"nogui">>)>>
          /\ facade.params[1] = TRUE_ =>
                Positional = <<self.vmx_file, PyStr(<<"gui">>)>>
    /\ (Built /\ facade.name = "deleteSnapshot") =>
          /\ cmd = PyStr(<<"deleteSnapshot">>)
          /\ facade.params[2] = TRUE_ =>
                Positional = <<self.vmx_file, facade.params[1],
                               PyStr(<<"andDeleteChildren">>)>>
          /\ facade.params[2] = FALSE_ =>
                Positional = <<self.vmx_file, facade.params[1]>>

\* C11 witness: deleteSnapshot('snap1', False) ran to its return with exactly
\* the vmx file and the snapshot name after the keyword.
C11_Witness ==
    /\ pc = "returned"
    /\ facade.name = "deleteSnapshot"
    /\ facade.params = <<PyStr(<<"snap1">>), FALSE_>>
    /\ Positional = <<VMX, PyStr(<<"snap1">>)>>
    /\ cmds[KeywordAt] = PyStr(<<"deleteSnapshot">>)

\* C12: setPortForwarding called with five non-None values (integer ports
\* included) and no description runs the command 'setPortForwarding' with
\* exactly those five values after the keyword, in their order, and no sixth
\* token; with a description, the description is the sixth and last token.
\* Sessions with no executable are left out: their failure is C9's.
C12_PortForwardingRuns ==
    (Built /\ facade.name = "setPortForwarding" /\ self.executable # PyNone) =>
        /\ cmd = PyStr(<<"setPortForwarding">>)
        /\ Positional =
              IF facade.params[6] = PyNone
              THEN SubSeq(facade.params, 1, 5)
              ELSE facade.params
        /\ pc = "raised" => error.at = "spawn"

\* C13: fileExistsInGuest(path) and directoryExistsInGuest(path) run the
\* command of the same name with arguments [vmx_file, path] through vmrun, and
\* return False exactly when 'not' is in the tool's output, True otherwise.
\* Sessions with no executable are left out: their failure is C9's.
C13_ExistsInGuestReturnsBoolean ==
    ( /\ facade.name \in {"fileExistsInGuest", "directoryExistsInGuest"}
      /\ self.executable # PyNone ) =>
        /\ cmd = PyStr(<<facade.name>>)
        /\ args = <<self.vmx_file, facade.params[1]>>
        /\ pc = "raised" => error.at = "spawn"
        /\ pc = "returned" =>
              result = PyBool(~(\E i \in 1..Len(proc.stdout.s) : proc.stdout.s[i] = "not"))

\* C14: runProgramInGuest and runScriptInGuest put after the keyword the vmx
\* file, then the enabled flags among -noWait, -activeWindow, -interactive in
\* that order, then the program or interpreter path, then the program
\* arguments or the script text; no flag comes after the path.
C14_Flags ==
    (IF facade.params[2] = FALSE_ THEN <<PyStr(<<"-noWait">>)>> ELSE <<>>)
    \o (IF facade.params[3] = TRUE_ THEN <<PyStr(<<"-activeWindow">>)>> ELSE <<>>)
    \o (IF facade.params[4] = TRUE_ THEN <<PyStr(<<"-interactive">>)>> ELSE <<>>)

C14_GuestRunOrder ==
    (Built /\ facade.name \in {"runProgramInGuest", "runScriptInGuest"}) =>
        Positional = <<self.vmx_file>> \o C14_Flags \o <<facade.params[1]>> \o facade.rest

====
